---------------------------- MODULE Spec2Model ----------------------------
(***************************************************************************)
(* Model of src/app.py: a Streamlit chat front end over a RetrievalQA      *)
(* chain.  Streamlit runs main() from top to bottom once per "cycle"; a    *)
(* cycle is started by a widget event of the session (a button click, a    *)
(* chat submission), by a plain re-render, or by st.rerun().  Each browser *)
(* session owns its st.session_state (keys "messages" and                  *)
(* "current_question"); the object returned by load_rag_system() is kept   *)
(* in the process-wide st.cache_resource cache.                            *)
(*                                                                         *)
(* Scheduling: the scripts of different sessions interleave.  A script     *)
(* touches only its own session state, except in load_rag_system, so one   *)
(* step of the model runs a session's script from one waiting point to     *)
(* the next: the compute lock of st.cache_resource (taken on a cache       *)
(* miss), the construction body, the qa_chain call, the end of the script. *)
(* A widget event of a session is delivered when that session's script is  *)
(* not running, with one exception: a chat submission may arrive while the *)
(* rerun that follows an example click is pending, and is then read by the *)
(* cycle that reads the selection.                                         *)
(***************************************************************************)
EXTENDS Integers, Sequences, FiniteSets, TLC

(* ------------------------------ bounds --------------------------------- *)
\* number of browser sessions served by the process
NumSessions == 2
\* number of submissions (clicks and texts) the sessions' histories hold
\* together; a reset empties the history of its session
MaxQuestions == 2

Sessions == 1..NumSessions

(* ------------------------- program constants --------------------------- *)
\* main(): example_questions, lines 226-230
example_questions == << "Q1", "Q2", "Q3" >>

\* the value of st.chat_input when nothing was submitted, and of a missing
\* session_state key
None == "<None>"

\* texts a user may submit through st.chat_input (line 239): the example
\* questions typed by hand, some other text, and the empty string
TypedTexts == { "", "other" } \cup { example_questions[i] : i \in 1..3 }

\* texts submitted while the rerun that follows an example click is still
\* pending: a text that is no example question and one that is
OverTexts == { "other", example_questions[1] }

\* what qa_chain returns (lines 258-260): result and source_documents
Responses ==
    { [result |-> "ans1", source_documents |-> << "d1", "d2", "d3" >>],
      [result |-> "ans2", source_documents |-> << >>] }

\* widget values of a cycle: the reset button (line 190), the example
\* button that was clicked (line 234, 0 = none) and st.chat_input (line 239)
NoWidgets == [reset |-> FALSE, button |-> 0, chat_input |-> None]

VARIABLES
    messages,          \* st.session_state.messages of each session
    has_messages,      \* "messages" in st.session_state
    current_question,  \* st.session_state.current_question, None if absent
    pc,                \* position of each session's script
    widgets,           \* widget values seen by the running cycle
    user_input,        \* main(): user_input of the cycle in the chain call
    qa_chain,          \* main(): instance bound at line 198, 0 = unbound
    cache,             \* st.cache_resource entry of load_rag_system, 0 = empty
    lock,              \* holder of the cache's compute lock, 0 = free
    index_exists,      \* Path("./chroma_db").exists()
    constructed,       \* history: completed constructions of the chain
    setup_failed,      \* history: a construction has failed
    dropped,           \* history: a reset of the session has removed turns
    hist,              \* history: inputs and outcomes of a session since its
                       \* start or last reset
    calls              \* history: queries passed to qa_chain since then

vars == << messages, has_messages, current_question, pc, widgets, user_input,
           qa_chain, cache, lock, index_exists, constructed, setup_failed,
           dropped, hist, calls >>

session_vars == << messages, has_messages, current_question, user_input,
                   hist, calls >>
resource_vars == << cache, lock, index_exists, constructed, setup_failed >>

(* ----------------------------- helpers --------------------------------- *)
\* a test that takes the empty string for a question
TruthyNotNone(x) == x /= None

\* Python truthiness of user_input at line 247
Truthy(x) == x /= None /\ x /= ""

UserTurn(content) == [role |-> "user", content |-> content]

AssistantTurn(content, sources) ==
    [role |-> "assistant", content |-> content, sources |-> sources]

\* the sidebar metric of line 204
exchange_count(s) == Len(messages[s]) \div 2

turn_count(s) == Len(messages[s])

\* st.session_state of a session
SessionState(s) ==
    [messages |-> messages[s],
     has_messages |-> has_messages[s],
     current_question |-> current_question[s]]

(* --------------------------- main(), one cycle ------------------------- *)
\* a reset that keeps the first turn
ResetKeepsFirst(msgs) == IF msgs = << >> THEN << >> ELSE << msgs[1] >>

\* lines 190-192: what the reset button stores under "messages"
ResetMessages(msgs) == << >>

\* a button paired with the question of its neighbour
SelectedNeighbour(i) == example_questions[(i % Len(example_questions)) + 1]

\* lines 232-235: the question stored by the i-th button, which zip pairs
\* with the i-th example question
SelectedQuestion(i) == example_questions[i]

\* a cycle that prefers the submitted text to the pending selection
ResolveInputTypedFirst(chat, pending) == IF chat /= None THEN chat ELSE pending

\* lines 239-243: the question of the cycle; a pending example selection
\* replaces what st.chat_input returned
ResolveInput(chat, pending) == IF pending /= None THEN pending ELSE chat

\* a read that leaves the selection in the session state
KeepPending(pending) == pending

\* line 244: del st.session_state.current_question
DelPending(pending) == None

\* an assignment in place of the append
AssignUser(msgs, question) == << UserTurn(question) >>

\* lines 249-252
AppendUser(msgs, question) == Append(msgs, UserTurn(question))

\* an assistant turn stored with an empty source list
AppendAssistantEmptySources(msgs, response) ==
    Append(msgs, AssistantTurn(response.result, << >>))

\* lines 259-267
AppendAssistant(msgs, response) ==
    Append(msgs, AssistantTurn(response.result, response.source_documents))

\* a handler that stores the error as an assistant turn
OnExceptionStoresError(msgs) == Append(msgs, AssistantTurn("error", << >>))

\* lines 269-270: the handler shows st.error and stores nothing
OnException(msgs) == msgs

\* How a cycle leaves the script: "rerun" by st.rerun(), "load" waiting in
\* load_rag_system, "calling" in the qa_chain call with the given query,
\* "idle" at the end of the script.
Outcome(st, out, w, query) ==
    [st |-> st, out |-> out, widgets |-> w, query |-> query]

\* a cycle that calls the chain before it has appended the question
BodyCallsFirst(st, w) ==
    LET st1 == [st EXCEPT !.has_messages = TRUE]
        question == ResolveInput(w.chat_input, st1.current_question)
        st2 == [st1 EXCEPT !.current_question =
                               IF @ /= None THEN DelPending(@) ELSE @]
    IN  IF w.button /= 0
        THEN Outcome([st1 EXCEPT !.current_question = SelectedQuestion(w.button)],
                     "rerun", NoWidgets, None)
        ELSE IF Truthy(question)
        THEN Outcome(st2, "calling", w, question)
        ELSE Outcome(st2, "idle", NoWidgets, None)

\* lines 200-273 with widget values w: an example button stores its
\* question and reruns (lines 232-236); otherwise the pending selection is
\* read and deleted (242-244) and a question is appended and sent to the
\* chain (247-258).
Body(st, w) ==
    LET st1 == [st EXCEPT !.has_messages = TRUE]
        question == ResolveInput(w.chat_input, st1.current_question)
        st2 == [st1 EXCEPT !.current_question =
                               IF @ /= None THEN DelPending(@) ELSE @]
    IN  IF w.button /= 0
        THEN Outcome([st1 EXCEPT !.current_question = SelectedQuestion(w.button)],
                     "rerun", NoWidgets, None)
        ELSE IF Truthy(question)
        THEN Outcome([st2 EXCEPT !.messages = AppendUser(@, question)],
                     "calling", w, question)
        ELSE Outcome(st2, "idle", NoWidgets, None)

\* lines 164-273, one cycle, with c the entry of the resource cache: the
\* reset button (190-192), then load_rag_system (198), which returns the
\* cached instance or has to run its body, then the rest of main().
Main(st, w, c) ==
    IF w.reset
    THEN Outcome([st EXCEPT !.messages = ResetMessages(@), !.has_messages = TRUE],
                 "rerun", NoWidgets, None)
    ELSE IF c = 0
    THEN Outcome(st, "load", w, None)
    ELSE Body(st, w)

\* st.rerun() starts the script again with no widget set; the cycles of a
\* session follow each other until one waits or the script ends.
RECURSIVE Run(_, _, _)
Run(st, w, c) ==
    LET r == Main(st, w, c)
    IN  IF r.out = "rerun" THEN Run(r.st, NoWidgets, c) ELSE r

\* the same from line 200 on, for the cycle whose call of load_rag_system
\* has just returned c
RunBody(st, w, c) ==
    LET r == Body(st, w)
    IN  IF r.out = "rerun" THEN Run(r.st, NoWidgets, c) ELSE r

\* a message list kept once for the process
ApplyShared(s, r, c, log) ==
    /\ messages' = [t \in Sessions |-> r.st.messages]
    /\ has_messages' = [has_messages EXCEPT ![s] = r.st.has_messages]
    /\ current_question' = [current_question EXCEPT ![s] = r.st.current_question]
    /\ pc' = [pc EXCEPT ![s] = r.out]
    /\ widgets' = [widgets EXCEPT ![s] = r.widgets]
    /\ user_input' = [user_input EXCEPT ![s] = r.query]
    /\ qa_chain' = [qa_chain EXCEPT ![s] = IF r.out = "load" THEN 0 ELSE c]
    /\ calls' = [calls EXCEPT
           ![s] = IF r.out = "calling"
                  THEN Append(log, [query |-> r.query, instance |-> c,
                                    turns |-> Len(r.st.messages)])
                  ELSE log]

\* The session state, position and call log of s after its script has run
\* to outcome r with chain instance c; log is the call log before it.
Apply(s, r, c, log) ==
    /\ messages' = [messages EXCEPT ![s] = r.st.messages]
    /\ has_messages' = [has_messages EXCEPT ![s] = r.st.has_messages]
    /\ current_question' = [current_question EXCEPT ![s] = r.st.current_question]
    /\ pc' = [pc EXCEPT ![s] = r.out]
    /\ widgets' = [widgets EXCEPT ![s] = r.widgets]
    /\ user_input' = [user_input EXCEPT ![s] = r.query]
    /\ qa_chain' = [qa_chain EXCEPT ![s] = IF r.out = "load" THEN 0 ELSE c]
    /\ calls' = [calls EXCEPT
           ![s] = IF r.out = "calling"
                  THEN Append(log, [query |-> r.query, instance |-> c,
                                    turns |-> Len(r.st.messages)])
                  ELSE log]

Init ==
    /\ messages = [s \in Sessions |-> << >>]
    /\ has_messages = [s \in Sessions |-> FALSE]
    /\ current_question = [s \in Sessions |-> None]
    /\ pc = [s \in Sessions |-> "load"]
    /\ widgets = [s \in Sessions |-> NoWidgets]
    /\ user_input = [s \in Sessions |-> None]
    /\ qa_chain = [s \in Sessions |-> 0]
    /\ cache = 0
    /\ lock = 0
    /\ index_exists \in BOOLEAN
    /\ constructed = 0
    /\ setup_failed = FALSE
    /\ dropped = [s \in Sessions |-> FALSE]
    /\ hist = [s \in Sessions |-> << >>]
    /\ calls = [s \in Sessions |-> << >>]

\* the submissions of a history
Inputs(h) == SelectSeq(h, LAMBDA e : e.ev \in {"click", "type"})

RECURSIVE SumInputs(_)
SumInputs(S) ==
    IF S = {} THEN 0
    ELSE LET s == CHOOSE x \in S : TRUE
         IN  Len(Inputs(hist[s])) + SumInputs(S \ {s})

Pending == SumInputs(Sessions)

(* ------------------- the user and the environment ---------------------- *)
\* The user presses the reset button of the sidebar (line 190).  The button
\* is rendered before load_rag_system is called, so it is also there when
\* the previous cycle was halted by st.stop().
ClickReset(s) ==
    /\ pc[s] \in {"idle", "stopped"}
    /\ Apply(s, Run(SessionState(s), [NoWidgets EXCEPT !.reset = TRUE], cache),
             cache, << >>)
    /\ hist' = [hist EXCEPT ![s] = << >>]
    /\ dropped' = [dropped EXCEPT ![s] = @ \/ messages[s] /= << >>]
    /\ UNCHANGED resource_vars

\* The user clicks the i-th example button (line 234).
ClickExample(s, i) ==
    /\ pc[s] = "idle"
    /\ Pending < MaxQuestions
    /\ Apply(s, Run(SessionState(s), [NoWidgets EXCEPT !.button = i], cache),
             cache, calls[s])
    /\ hist' = [hist EXCEPT ![s] = Append(@, [ev |-> "click", button |-> i])]
    /\ UNCHANGED << resource_vars, dropped >>

\* The user submits text through st.chat_input (line 239).  The history
\* holds the submissions that carry a question.
SubmitText(s, text) ==
    /\ pc[s] = "idle"
    /\ text = "" \/ Pending < MaxQuestions
    /\ Apply(s, Run(SessionState(s), [NoWidgets EXCEPT !.chat_input = text],
                    cache), cache, calls[s])
    /\ hist' = [hist EXCEPT ![s] = IF text = "" THEN @
                                   ELSE Append(@, [ev |-> "type", text |-> text])]
    /\ UNCHANGED << resource_vars, dropped >>

\* The user clicks the i-th example button and submits text through
\* st.chat_input before the rerun of line 236 has reached line 239: the
\* click's cycle stores the selection (235) and the cycle that follows runs
\* with the selection pending and with st.chat_input returning the text.
ClickExampleAndSubmit(s, i, text) ==
    /\ pc[s] = "idle"
    /\ Pending < MaxQuestions
    /\ LET clicked == Main(SessionState(s), [NoWidgets EXCEPT !.button = i], cache)
       IN  /\ clicked.out = "rerun"
           /\ Apply(s, Run(clicked.st, [NoWidgets EXCEPT !.chat_input = text],
                           cache), cache, calls[s])
    /\ hist' = [hist EXCEPT ![s] = Append(@, [ev |-> "click", button |-> i,
                                              over |-> text])]
    /\ UNCHANGED << resource_vars, dropped >>

\* A render with no widget event (the page is re-rendered as it is).
Render(s) ==
    /\ pc[s] \in {"idle", "stopped"}
    /\ Apply(s, Run(SessionState(s), NoWidgets, cache), cache, calls[s])
    /\ UNCHANGED << resource_vars, dropped, hist >>

\* The operator runs the ingestion script that creates ./chroma_db (the
\* error message of line 94 asks for it).
CreateIndex ==
    /\ ~index_exists
    /\ index_exists' = TRUE
    /\ UNCHANGED << messages, has_messages, current_question, pc, widgets,
                    user_input, qa_chain, cache, lock, constructed,
                    setup_failed, dropped, hist, calls >>

(* --------------- load_rag_system(): lines 79-127 ----------------------- *)
\* @st.cache_resource, cache hit for a cycle that waited in the call: the
\* stored instance is returned, the body is not run and main() goes on.
LoadHit(s) ==
    /\ pc[s] = "load"
    /\ cache /= 0
    /\ Apply(s, RunBody(SessionState(s), widgets[s], cache), cache, calls[s])
    /\ UNCHANGED << resource_vars, dropped, hist >>

\* a cache miss that enters the body without taking the lock
LoadMissUnlocked(s) ==
    /\ pc[s] = "load"
    /\ cache = 0
    /\ lock' = s
    /\ pc' = [pc EXCEPT ![s] = "building"]
    /\ UNCHANGED << session_vars, widgets, qa_chain, cache, index_exists,
                    constructed, setup_failed, dropped >>

\* @st.cache_resource, cache miss: the caller takes the compute lock of the
\* function and enters the body; callers that find the lock taken wait.
LoadMiss(s) ==
    /\ pc[s] = "load"
    /\ cache = 0
    /\ lock = 0
    /\ lock' = s
    /\ pc' = [pc EXCEPT ![s] = "building"]
    /\ UNCHANGED << session_vars, widgets, qa_chain, cache, index_exists,
                    constructed, setup_failed, dropped >>

\* a failure that is stored in the cache
BuildIndexMissingCached(s) ==
    /\ pc[s] = "building"
    /\ ~index_exists
    /\ lock' = IF lock = s THEN 0 ELSE lock
    /\ cache' = -1
    /\ setup_failed' = TRUE
    /\ pc' = [pc EXCEPT ![s] = "stopped"]
    /\ UNCHANGED << session_vars, widgets, qa_chain, index_exists,
                    constructed, dropped >>

\* lines 93-95: ./chroma_db is missing; st.error, st.stop().  Nothing is
\* stored in the cache and the script of this cycle ends here.
BuildIndexMissing(s) ==
    /\ pc[s] = "building"
    /\ ~index_exists
    /\ lock' = IF lock = s THEN 0 ELSE lock
    /\ setup_failed' = TRUE
    /\ pc' = [pc EXCEPT ![s] = "stopped"]
    /\ UNCHANGED << session_vars, widgets, qa_chain, cache, index_exists,
                    constructed, dropped >>

\* a failure that does not halt the script
BuildRaisesGoesOn(s) ==
    /\ pc[s] = "building"
    /\ lock' = IF lock = s THEN 0 ELSE lock
    /\ setup_failed' = TRUE
    /\ Apply(s, RunBody(SessionState(s), widgets[s], 0), 0, calls[s])
    /\ UNCHANGED << cache, index_exists, constructed, dropped, hist >>

\* lines 125-127: a construction step (the embedding client, Chroma, the
\* chat model, the retriever, the chain) raises; st.error, st.stop().
BuildRaises(s) ==
    /\ pc[s] = "building"
    /\ lock' = IF lock = s THEN 0 ELSE lock
    /\ setup_failed' = TRUE
    /\ pc' = [pc EXCEPT ![s] = "stopped"]
    /\ UNCHANGED << session_vars, widgets, qa_chain, cache, index_exists,
                    constructed, dropped >>

\* lines 86-123: the body runs to its return; the wrapper stores the
\* returned pair in the cache and releases the lock, and main() goes on
\* with the new instance.
BuildOk(s) ==
    /\ pc[s] = "building"
    /\ index_exists
    /\ constructed' = constructed + 1
    /\ cache' = constructed + 1
    /\ lock' = IF lock = s THEN 0 ELSE lock
    /\ Apply(s, RunBody(SessionState(s), widgets[s], constructed + 1),
             constructed + 1, calls[s])
    /\ UNCHANGED << index_exists, setup_failed, dropped, hist >>

(* ------------------ the qa_chain call: lines 258-273 ------------------- *)
\* a cycle that appends the answer and ends without the rerun, halted
ChainReturnsHalts(s, response) ==
    /\ pc[s] = "calling"
    /\ messages' = [messages EXCEPT ![s] = AppendAssistant(@, response)]
    /\ pc' = [pc EXCEPT ![s] = "stopped"]
    /\ hist' = [hist EXCEPT ![s] = Append(@, [ev |-> "ok", response |-> response])]
    /\ UNCHANGED << has_messages, current_question, widgets, user_input,
                    qa_chain, calls, resource_vars, dropped >>

\* lines 258-267 and 273: qa_chain returns; the assistant turn is appended
\* and st.rerun() starts the script again.
ChainReturns(s, response) ==
    /\ pc[s] = "calling"
    /\ Apply(s, Run([SessionState(s) EXCEPT
                        !.messages = AppendAssistant(@, response)],
                    NoWidgets, cache), cache, calls[s])
    /\ hist' = [hist EXCEPT ![s] = Append(@, [ev |-> "ok", response |-> response])]
    /\ UNCHANGED << resource_vars, dropped >>

\* a rerun that sees the submitted text again
ChainRaisesResubmits(s) ==
    /\ pc[s] = "calling"
    /\ Apply(s, Run([SessionState(s) EXCEPT !.messages = OnException(@)],
                    widgets[s], cache), cache, calls[s])
    /\ hist' = [hist EXCEPT ![s] = Append(@, [ev |-> "raise"])]
    /\ UNCHANGED << resource_vars, dropped >>

\* lines 258, 269-270 and 273: qa_chain raises; the handler reports the
\* error and st.rerun() starts the script again.
ChainRaises(s) ==
    /\ pc[s] = "calling"
    /\ Apply(s, Run([SessionState(s) EXCEPT !.messages = OnException(@)],
                    NoWidgets, cache), cache, calls[s])
    /\ hist' = [hist EXCEPT ![s] = Append(@, [ev |-> "raise"])]
    /\ UNCHANGED << resource_vars, dropped >>

(* --------------------------- specification ----------------------------- *)
Next ==
    \/ \E s \in Sessions : ClickReset(s)
    \/ \E s \in Sessions : \E i \in 1..Len(example_questions) : ClickExample(s, i)
    \/ \E s \in Sessions : \E text \in TypedTexts : SubmitText(s, text)
    \/ \E s \in Sessions : \E i \in 1..Len(example_questions) :
           \E text \in OverTexts : ClickExampleAndSubmit(s, i, text)
    \/ \E s \in Sessions : Render(s)
    \/ CreateIndex
    \/ \E s \in Sessions : LoadHit(s)
    \/ \E s \in Sessions : LoadMiss(s)
    \/ \E s \in Sessions : BuildIndexMissing(s)
    \/ \E s \in Sessions : BuildRaises(s)
    \/ \E s \in Sessions : BuildOk(s)
    \/ \E s \in Sessions : \E response \in Responses : ChainReturns(s, response)
    \/ \E s \in Sessions : ChainRaises(s)

Spec == Init /\ [][Next]_vars

\* line 258: the call of qa_chain is synchronous and ends, by returning or
\* by raising (the clients give up after their timeouts and retries)
ChainCompletes(s) ==
    \/ \E response \in Responses : ChainReturns(s, response)
    \/ ChainRaises(s)

\* the program with every chain call running to its end
FairSpec == Spec /\ \A s \in Sessions : WF_vars(ChainCompletes(s))

(* ------------------------ reading a history ---------------------------- *)
\* the question a submission carries: the label of the clicked button
\* (line 234) or the submitted text
InputText(e) == IF e.ev = "click" THEN example_questions[e.button] ELSE e.text

\* a history with every click replaced by the submission of its label
Canon(h) ==
    [k \in 1..Len(h) |->
        IF h[k].ev = "click" THEN [ev |-> "type", text |-> InputText(h[k])]
        ELSE h[k]]

\* numbers of answered and of failed submissions of a history
NumOk(h) == Len(SelectSeq(h, LAMBDA e : e.ev = "ok"))
NumRaise(h) == Len(SelectSeq(h, LAMBDA e : e.ev = "raise"))

IsPrefix(a, b) == Len(a) <= Len(b) /\ SubSeq(b, 1, Len(a)) = a

Last(q) == q[Len(q)]

(* ------------------------------ claims --------------------------------- *)
\* C1: after N answered and M failed submissions with no reset, the
\* exchange count of the session (line 204) is N and its turn count is
\* 2N + M.
ExchangeCounting ==
    \A s \in Sessions :
        pc[s] /= "calling" =>
            /\ exchange_count(s) = NumOk(hist[s])
            /\ turn_count(s) = 2 * NumOk(hist[s]) + NumRaise(hist[s])

\* C2: a question A whose chain call raises leaves the list as it was just
\* before the call, ending with user:A; from an empty session a failed A
\* followed by an answered B gives [user:A, user:B, assistant:B].
FailureIsolation ==
    \A s \in Sessions :
        LET h == hist[s]
        IN  /\ (Len(h) >= 2 /\ Last(h).ev = "raise") =>
                /\ messages[s] /= << >>
                /\ Last(messages[s]) = UserTurn(InputText(h[Len(h) - 1]))
                /\ Len(calls[s]) >= 1
                /\ Len(messages[s]) = Last(calls[s]).turns
            /\ (Len(h) = 4 /\ h[2].ev = "raise" /\ h[4].ev = "ok") =>
                messages[s] =
                    << UserTurn(InputText(h[1])), UserTurn(InputText(h[3])),
                       AssistantTurn(h[4].response.result,
                                     h[4].response.source_documents) >>

FailureIsolationWitness ==
    \E s \in Sessions :
        /\ Len(hist[s]) = 4
        /\ hist[s][2].ev = "raise"
        /\ hist[s][4].ev = "ok"
        /\ InputText(hist[s][1]) /= InputText(hist[s][3])
        /\ Len(messages[s]) = 3

\* C3: only the reset removes turns; every other step keeps the stored
\* turns, in order and unedited, as a prefix of the new list.
AppendOnly ==
    [][\A s \in Sessions :
          \/ IsPrefix(messages[s], messages'[s])
          \/ /\ pc[s] \in {"idle", "stopped"}
             /\ hist'[s] = << >>
             /\ dropped'[s]
             /\ messages'[s] = << >>]_vars

AppendOnlyWitness ==
    \E s \in Sessions :
        /\ dropped[s]
        /\ Len(messages[s]) >= 2
        /\ \E t \in Sessions \ {s} : Len(messages[t]) >= 1

\* C4: a reset leaves the session with no turn, and the submissions made
\* after it store the same turns as the same submissions, with the same
\* outcomes, made in a session that never held turns before them.
ResetSemantics ==
    /\ \A s \in Sessions :
           (dropped[s] /\ hist[s] = << >>) => turn_count(s) = 0
    /\ \A s, t \in Sessions :
           ( /\ dropped[s]
             /\ ~dropped[t]
             /\ pc[s] = "idle"
             /\ pc[t] = "idle"
             /\ hist[s] = hist[t] ) => messages[s] = messages[t]

ResetSemanticsWitness ==
    \E s, t \in Sessions :
        /\ dropped[s]
        /\ ~dropped[t]
        /\ pc[s] = "idle"
        /\ pc[t] = "idle"
        /\ hist[s] = hist[t]
        /\ Len(messages[s]) = 2

\* the questions of a history, the queries of a call log and the user
\* turns of a list
Questions(h) == [k \in 1..Len(Inputs(h)) |-> InputText(Inputs(h)[k])]
Queries(log) == [k \in 1..Len(log) |-> log[k].query]
UserContents(msgs) ==
    LET users == SelectSeq(msgs, LAMBDA m : m.role = "user")
    IN  [k \in 1..Len(users) |-> users[k].content]

\* C5: a selected example question is consumed once: it is out of the
\* session state before the chain is called, each click gives one user
\* turn and one chain call, and the renders that follow add neither.
ConsumedOnce ==
    \A s \in Sessions :
        /\ pc[s] \in {"calling", "idle"} => current_question[s] = None
        /\ pc[s] = "idle" =>
            /\ Queries(calls[s]) = Questions(hist[s])
            /\ UserContents(messages[s]) = Questions(hist[s])

ConsumedOnceWitness ==
    \E s \in Sessions :
        /\ pc[s] = "idle"
        /\ Len(hist[s]) = 4
        /\ hist[s][1].ev = "click"
        /\ hist[s][3].ev = "click"
        /\ Len(calls[s]) = 2

\* C6: selecting an example question and typing its text give the same
\* chain calls and, with the same responses, the same message list.
QuickQuestionRoundTrip ==
    \A s, t \in Sessions :
        ( /\ pc[s] = "idle"
          /\ pc[t] = "idle"
          /\ Canon(hist[s]) = Canon(hist[t]) ) =>
            /\ messages[s] = messages[t]
            /\ Queries(calls[s]) = Queries(calls[t])

QuickQuestionRoundTripWitness ==
    \E s, t \in Sessions :
        /\ pc[s] = "idle"
        /\ pc[t] = "idle"
        /\ Len(hist[s]) = 2
        /\ Len(hist[t]) = 2
        /\ hist[s][1].ev = "click"
        /\ hist[s][1].button = 3
        /\ hist[t][1].ev = "type"
        /\ Canon(hist[s]) = Canon(hist[t])
        /\ Len(messages[s]) = 2
        /\ Len(calls[t]) = 1

\* C7: a cycle with no question (nothing or the empty string submitted and
\* no pending selection) appends no turn and does not call the chain: a
\* step of a session that is not in a chain call and in which no question
\* is submitted leaves its turns and its call log as they were.
NoQuestionNoOp ==
    [][\A s \in Sessions :
          ( /\ pc[s] /= "calling"
            /\ current_question[s] = None
            /\ hist'[s] = hist[s] ) =>
              /\ messages'[s] = messages[s]
              /\ calls'[s] = calls[s]
              /\ pc'[s] /= "calling"]_vars

NoQuestionNoOpWitness ==
    \E s \in Sessions :
        /\ pc[s] = "idle"
        /\ current_question[s] = None
        /\ Len(messages[s]) >= 2
        /\ ENABLED SubmitText(s, "")
        /\ ENABLED Render(s)

\* C8: no question is processed unless the resource context was built: a
\* session holds turns, has called the chain or is in a chain call only
\* when the cache holds the built instance, every call went to that
\* instance, and a cycle halted by a setup error has bound no chain and
\* taken no question.
ServedOnlyWithContext ==
    \A s \in Sessions :
        /\ (pc[s] = "calling" \/ messages[s] /= << >> \/ calls[s] /= << >>) =>
               (cache /= 0 /\ constructed >= 1)
        /\ \A k \in 1..Len(calls[s]) :
               calls[s][k].instance /= 0 /\ calls[s][k].instance = cache
        /\ pc[s] = "stopped" =>
               (qa_chain[s] = 0 /\ user_input[s] = None /\ messages[s] = << >>)

ServedOnlyWithContextWitness ==
    \E s, t \in Sessions :
        /\ setup_failed
        /\ pc[s] = "stopped"
        /\ pc[t] = "calling"
        /\ Len(calls[t]) = 2

StrictAlternation ==
    \A s \in Sessions :
        /\ \A k \in 1..Len(messages[s]) :
               messages[s][k].role = IF k % 2 = 1 THEN "user" ELSE "assistant"
        /\ pc[s] = "idle" => Len(messages[s]) % 2 = 0

CycleTerminates ==
    /\ \A s \in Sessions :
           (pc[s] = "calling") ~> (pc[s] = "idle" /\ current_question[s] = None)
    /\ [][\A s \in Sessions :
            /\ (pc[s] = "calling" /\ pc'[s] /= "calling") =>
                   /\ pc'[s] = "idle"
                   /\ current_question'[s] = None
                   /\ has_messages'[s]
            /\ (pc[s] = "idle" /\ Len(Inputs(hist'[s])) > Len(Inputs(hist[s]))) =>
                   /\ pc'[s] = "calling"
                   /\ user_input'[s] = InputText(Last(hist'[s]))
                   /\ messages'[s] =
                          Append(messages[s], UserTurn(user_input'[s]))]_vars

CycleTerminatesWitness ==
    \E s \in Sessions :
        /\ pc[s] = "calling"
        /\ Len(hist[s]) = 3
        /\ hist[s][1].ev = "click"
        /\ hist[s][2].ev = "raise"
        /\ hist[s][3].ev = "type"
        /\ user_input[s] = hist[s][3].text

\* the numbers of the assistant turns of a list
AssistantIndexes(msgs) == { k \in 1..Len(msgs) : msgs[k].role = "assistant" }

\* C14: the user turn of a question is in the list when the chain is called
\* with it, and an assistant turn is appended only when a call has
\* returned: while a call is in progress the list ends with the user turn
\* of its query, there are as many assistant turns as calls that returned,
\* every assistant turn comes right after the user turn that was the last
\* turn when the chain was called with its content, and the first turn is
\* not an assistant turn.
UserTurnBeforeCall ==
    \A s \in Sessions :
        /\ pc[s] = "calling" =>
               /\ calls[s] /= << >>
               /\ Last(calls[s]).query = user_input[s]
               /\ Last(calls[s]).turns = Len(messages[s])
               /\ messages[s] /= << >>
               /\ Last(messages[s]) = UserTurn(user_input[s])
        /\ Cardinality(AssistantIndexes(messages[s])) = NumOk(hist[s])
        /\ \A k \in AssistantIndexes(messages[s]) :
               /\ k > 1
               /\ messages[s][k - 1].role = "user"
               /\ \E j \in 1..Len(calls[s]) :
                      /\ calls[s][j].turns = k - 1
                      /\ calls[s][j].query = messages[s][k - 1].content

UserTurnBeforeCallWitness ==
    \E s \in Sessions :
        /\ pc[s] = "calling"
        /\ Len(messages[s]) = 3
        /\ messages[s][2].role = "assistant"
        /\ messages[s][3].role = "user"
        /\ messages[s][3].content /= messages[s][1].content

\* the responses of the calls of a history that returned, and the assistant
\* turns of a list
OkResponses(h) ==
    LET oks == SelectSeq(h, LAMBDA e : e.ev = "ok")
    IN  [k \in 1..Len(oks) |-> oks[k].response]
AssistantTurns(msgs) == SelectSeq(msgs, LAMBDA m : m.role = "assistant")

\* C15: a stored turn has a sources value only if its role is assistant: a
\* user turn has the keys role and content and no other, an assistant turn
\* has a sources value, and the k-th assistant turn of a session holds the
\* result and the source documents of the k-th call that returned.
SourcesOnlyOnAssistant ==
    \A s \in Sessions :
        /\ \A k \in 1..Len(messages[s]) :
               /\ messages[s][k].role \in {"user", "assistant"}
               /\ messages[s][k].role = "user" =>
                      DOMAIN messages[s][k] = {"role", "content"}
               /\ messages[s][k].role = "assistant" =>
                      DOMAIN messages[s][k] = {"role", "content", "sources"}
        /\ Len(AssistantTurns(messages[s])) = Len(OkResponses(hist[s]))
        /\ \A k \in 1..Len(AssistantTurns(messages[s])) :
               /\ AssistantTurns(messages[s])[k].content =
                      OkResponses(hist[s])[k].result
               /\ AssistantTurns(messages[s])[k].sources =
                      OkResponses(hist[s])[k].source_documents

SourcesOnlyOnAssistantWitness ==
    \E s \in Sessions :
        /\ Len(messages[s]) = 4
        /\ messages[s][1].role = "user"
        /\ messages[s][2].role = "assistant"
        /\ messages[s][4].role = "assistant"
        /\ messages[s][2].sources /= << >>
        /\ messages[s][4].sources = << >>

\* C16: the conversation state is private to its session: a step of one
\* session (a submission, a click, a reset, the return or the failure of
\* its chain call, its part in the construction) leaves the message list,
\* the pending question and the question in progress of every other
\* session as they were.
SessionPrivacy ==
    [][\A s \in Sessions :
          ( \/ pc'[s] /= pc[s]
            \/ hist'[s] /= hist[s]
            \/ messages'[s] /= messages[s]
            \/ current_question'[s] /= current_question[s] ) =>
              \A t \in Sessions \ {s} :
                  /\ messages'[t] = messages[t]
                  /\ has_messages'[t] = has_messages[t]
                  /\ current_question'[t] = current_question[t]
                  /\ user_input'[t] = user_input[t]]_vars

SessionPrivacyWitness ==
    \E s, t \in Sessions :
        /\ pc[s] = "calling"
        /\ pc[t] = "calling"
        /\ user_input[s] /= user_input[t]
        /\ dropped[s]
        /\ Len(messages[s]) = 1
        /\ Len(messages[t]) = 1

\* a click whose selection was read by a cycle that also had submitted text
HasOver(e) == e.ev = "click" /\ "over" \in DOMAIN e

\* C17: in a cycle with both submitted text and a pending selection the
\* selection replaces the text: the step appends one user turn, holding the
\* example question, and calls the chain once, with the example question;
\* and in every state the turn and the query of such a submission hold the
\* example question, with one user turn and one call per submission, so
\* the text is neither stored nor sent.
SelectionReplacesText ==
    /\ [][\A s \in Sessions :
            ( /\ Len(hist'[s]) = Len(hist[s]) + 1
              /\ HasOver(Last(hist'[s])) ) =>
                LET e == Last(hist'[s])
                    q == example_questions[e.button]
                IN  /\ widgets'[s].chat_input = e.over
                    /\ current_question'[s] = None
                    /\ messages'[s] = Append(messages[s], UserTurn(q))
                    /\ Len(calls'[s]) = Len(calls[s]) + 1
                    /\ Last(calls'[s]).query = q
                    /\ user_input'[s] = q
                    /\ pc'[s] = "calling"]_vars
    /\ [](\A s \in Sessions :
            /\ Len(UserContents(messages[s])) = Len(Inputs(hist[s]))
            /\ Len(calls[s]) = Len(UserContents(messages[s]))
            /\ \A k \in 1..Len(Inputs(hist[s])) :
                   HasOver(Inputs(hist[s])[k]) =>
                       /\ UserContents(messages[s])[k] =
                              example_questions[Inputs(hist[s])[k].button]
                       /\ calls[s][k].query =
                              example_questions[Inputs(hist[s])[k].button])

SelectionReplacesTextWitness ==
    \E s \in Sessions :
        /\ pc[s] = "idle"
        /\ Len(hist[s]) = 4
        /\ HasOver(hist[s][1])
        /\ HasOver(hist[s][3])
        /\ hist[s][1].over = "other"
        /\ hist[s][3].over = example_questions[1]
        /\ hist[s][3].button = 2
        /\ Len(messages[s]) = 4

=============================================================================
